---- MODULE Spec2Model ----
(***************************************************************************)
(* A model of crates/tweak/src/metadata.rs: one ClonedProject instance,    *)
(* its two single-slot caches (_compile_output, _main_artifact), the       *)
(* process-wide working directory that compile_safe changes, and the       *)
(* callers that run compile_safe, main_artifact and tweaked_code on the    *)
(* instance.  Every access to shared state (a lock/unlock of a cache       *)
(* mutex, a read or a change of the working directory, an invocation of    *)
(* the compiler) is one step of the caller that makes it, so callers       *)
(* interleave exactly where threads sharing the instance can.  The other   *)
(* ways of obtaining a ClonedProject (load_with_root, Default, Clone) and  *)
(* the comparison of two values are modelled next to it.                   *)
(***************************************************************************)
EXTENDS Integers, Sequences, FiniteSets, TLC

(* ------------------------------ bounds -------------------------------- *)

\* Top-level calls made on the instance in one behaviour, over all callers.
MaxCalls == 2

(* ----------------------------- data model ----------------------------- *)

\* Option<T>: None is the empty tuple, Some(v) the one-element tuple.
None == <<>>

Some(v) == <<v>>

\* The value of a Some.
unwrap(opt) == opt[1]

\* eyre::Result<T>: a record, so that every result has one shape.
Ok(v) == [ok |-> TRUE, val |-> Some(v), err |-> None]

Err(e) == [ok |-> FALSE, val |-> None, err |-> e]

\* The register of a caller that holds no result.
NoResult == [ok |-> FALSE, val |-> None, err |-> None]

\* A path is the sequence of its components, the root directory "/" being
\* the first component of an absolute path.
\* Directories: the directory the process was started in, and the project root.
Home == << "/", "home" >>

Root == << "/", "proj" >>

\* A directory with no .clone.meta, one whose .clone.meta is malformed, and
\* the project root written relative to the working directory's parent.
NoDescriptor == << "/", "empty" >>

BadDescriptor == << "/", "bad" >>

Relative == << "proj" >>

\* PathBuf::default(): the empty path.
EmptyPath == << >>

\* The roots load_with_root is called with.
Roots == {Root, NoDescriptor, BadDescriptor, Relative}

\* Chain::default() is mainnet: the id config.chain.unwrap_or_default().id()
\* yields when foundry.toml sets no chain.
DefaultChainId == 1

\* The projects loaded: foundry.toml's chain (None when it sets none) and the
\* descriptor's chainId.  The first two agree on the chain, the last two differ.
Loads == { << None, DefaultChainId >>, << Some(5), 5 >>,
           << None, 5 >>, << Some(5), DefaultChainId >> }

\* The loads explored with several callers: one that agrees on the chain and
\* one that differs by the default of an unset chain.
SharedLoads == { << Some(5), 5 >>, << None, 5 >> }

\* One storage variable of a StorageLayout: its slot, its byte offset in the
\* slot, the byte size and the encoding of its type, and its label.
Var(slot, offset, size, encoding, label) ==
    [slot |-> slot, offset |-> offset, size |-> size, encoding |-> encoding,
     label |-> label]

LayoutA == << Var(0, 0, 32, "inplace", "a") >>

LayoutMoved == << Var(1, 0, 32, "inplace", "a") >>

LayoutAppended == << Var(0, 0, 32, "inplace", "a"), Var(1, 0, 32, "inplace", "b") >>

\* One entry of ProjectCompileOutput::artifacts_with_files(): (file, name, artifact).
Artifact(file, name, layout, code) ==
    [file |-> file, name |-> name, layout |-> layout, code |-> code]

\* The compile outputs the compiler may produce for the sources found under
\* the root at the time it runs (the user may edit them between two runs).
\* Each is the sequence artifacts_with_files() iterates, in its order.
\* The target contract alone, its layout the recorded one plus a new variable.
OutGood == << Artifact("A.sol", "Target", LayoutAppended, "c1") >>

\* Two contracts named Target: the first has moved the recorded variable, the
\* second has kept the recorded layout.
OutDup == << Artifact("A.sol", "Target", LayoutMoved, "c2"),
             Artifact("B.sol", "Target", LayoutA, "c3") >>

\* No contract named Target.
OutMissing == << Artifact("A.sol", "Other", LayoutA, "c4") >>

Outputs == {OutGood, OutDup, OutMissing}

\* CloneMetadata as deserialized from .clone.meta.
CloneMetadata(chain) ==
    [path |-> "src/Target.sol",
     target_contract |-> "Target",
     address |-> "0xaa",
     chain_id |-> chain,
     creation_transaction |-> "0xtx",
     deployer |-> "0xdd",
     constructor_arguments |-> "0x",
     storage_layout |-> LayoutA]

VARIABLES
    metadata,         \* ClonedProject.metadata
    config,           \* ClonedProject.config (the chain: Option<Chain>)
    _compile_output,  \* Arc<Mutex<Option<ProjectCompileOutput>>>
    _main_artifact,   \* Arc<Mutex<Option<ConfigurableContractArtifact>>>
    poisoned,         \* the cache mutexes a panic has poisoned
    cwd,              \* std::env::current_dir() of the process
    callers,          \* the callers sharing the instance
    pc,               \* pc[t]: the statement caller t executes next
    stack,            \* stack[t]: the return points of the calls t is inside
    reg,              \* reg[t]: the Result the last callee returned to t
    saved,            \* saved[t]: compile_safe's local `cwd`
    op,               \* op[t]: the top-level operation t is running
    quick,            \* quick[t]: tweaked_code's argument
    cwd0,             \* cwd0[t]: the working directory when t's call started
    started,          \* started[t]: the caches when t's call started
    log,              \* log[t]: what t's current top-level call has done
    last,             \* last[t]: t's last finished top-level call
    calls,            \* top-level calls started so far
    notFound,         \* main_artifact calls that found no target contract
    compiles,         \* invocations of the compiler, and the successful ones
    loaded,           \* the metadata as parsed at load
    arg,              \* arg[t]: the root load_with_root was called with
    clones,           \* the callers whose value is a modified clone of the instance
    projects          \* the ClonedProject values obtained by load, default, clone

vars == << metadata, config, _compile_output, _main_artifact, poisoned, cwd,
           callers, pc, stack, reg, saved, op, quick, cwd0, started, log,
           last, calls, notFound,
           compiles, loaded, arg, clones, projects >>

\* The callers (threads) that may share the instance: two.
Threads == {1, 2}

(* ------------------------------ helpers ------------------------------- *)

CacheNames == {"_compile_output", "_main_artifact"}

\* Whether event e is in log L.
Has(L, e) == \E i \in 1..Len(L) : L[i] = e

\* A ClonedProject value: its public fields, and `arc`, the identity of the
\* pair of Arc<Mutex<..>> caches it points to.
ClonedProject(root, cfg, md, arc) ==
    [root |-> root, config |-> cfg, metadata |-> md, arc |-> arc]

\* The instance: the value load_with_root returned, its caches the pair 0.
this == ClonedProject(Root, config, metadata, 0)

\* The value caller t calls on (`self`): the instance, or a clone of it whose
\* metadata.target_contract was then set to another contract of the project.
\* The derived Clone copies the two Arcs, so the clone points to the caches of
\* the instance.
self(t) ==
    IF t \in clones
    THEN [this EXCEPT !.metadata.target_contract = "Other"]
    ELSE this

\* Variables no operation of the instance assigns.
instance == << metadata, config, loaded, callers, calls, arg, clones, projects >>

\* is_cached: cache.lock().unwrap().is_some()
is_cached(cache) == cache # None

\* set_cache that leaves the cache as it finds it.
set_cache_leaves_cache(cache, value) == cache

\* set_cache: *cache.lock().unwrap() = Some(value)
set_cache(cache, value) == Some(value)

\* get_cache: the value in the cache (the caller checks that it holds one).
get_cache(cache) == unwrap(cache)

\* A panic of caller t while it holds the lock of cache `name`: the caller
\* stops for good and the mutex is poisoned.
Panic(t, name) ==
    /\ pc' = [pc EXCEPT ![t] = "panicked"]
    /\ poisoned' = poisoned \cup {name}
    /\ UNCHANGED << stack, reg, log, op, quick, cwd0, started, last >>

\* Whether a call finds each cache populated when it starts.
Caches == [co |-> _compile_output # None, ma |-> _main_artifact # None]

NoCaches == [co |-> FALSE, ma |-> FALSE]

\* The record of a finished top-level call: the operation, its argument, its
\* result, what it did, the working directory before and after it, and the
\* caches as it found them.
Finished(t, res, events, dir) ==
    [op |-> op[t], quick |-> quick[t], res |-> res, log |-> events,
     cwd0 |-> cwd0[t], cwd1 |-> dir, started |-> started[t], arg |-> arg[t]]

\* No finished call.
NoCall ==
    [op |-> "none", quick |-> FALSE, res |-> NoResult, log |-> << >>,
     cwd0 |-> Home, cwd1 |-> Home, started |-> NoCaches, arg |-> None]

\* Caller t returns `res` from the function it is in: to the statement that
\* called it, or, from a top-level call, to the caller's idle state.  `events`
\* is the call's log after this step and `dir` the working directory after it.
Return(t, res, events, dir) ==
    IF stack[t] = << >>
    THEN /\ pc' = [pc EXCEPT ![t] = "idle"]
         /\ reg' = [reg EXCEPT ![t] = NoResult]
         /\ log' = [log EXCEPT ![t] = << >>]
         /\ op' = [op EXCEPT ![t] = "none"]
         /\ quick' = [quick EXCEPT ![t] = FALSE]
         /\ cwd0' = [cwd0 EXCEPT ![t] = Home]
         /\ started' = [started EXCEPT ![t] = NoCaches]
         /\ last' = [last EXCEPT ![t] = Finished(t, res, events, dir)]
         /\ UNCHANGED stack
    ELSE /\ pc' = [pc EXCEPT ![t] = Head(stack[t])]
         /\ stack' = [stack EXCEPT ![t] = Tail(stack[t])]
         /\ reg' = [reg EXCEPT ![t] = res]
         /\ log' = [log EXCEPT ![t] = events]
         /\ UNCHANGED << op, quick, cwd0, started, last >>

\* Caller t goes on to statement p of the function it is in.
Goto(t, p) ==
    /\ pc' = [pc EXCEPT ![t] = p]
    /\ UNCHANGED << stack, op, quick, cwd0, started, last >>

\* Caller t calls a function whose first statement is `entry` and goes on at
\* `cont` when it returns.
Call(t, entry, cont) ==
    /\ pc' = [pc EXCEPT ![t] = entry]
    /\ stack' = [stack EXCEPT ![t] = << cont >> \o stack[t]]
    /\ UNCHANGED << op, quick, cwd0, started, last >>

(* ------------------------------- Init --------------------------------- *)

\* The state load_with_root leaves: both caches empty, the working directory
\* restored, the metadata as parsed from .clone.meta.
InitWith(cs, loads) ==
    /\ callers = cs
    /\ \E l \in loads :
          /\ config = [chain |-> l[1]]
          /\ metadata = CloneMetadata(l[2])
    /\ loaded = metadata
    /\ _compile_output = None
    /\ _main_artifact = None
    /\ poisoned = {}
    /\ cwd = Home
    /\ pc = [t \in Threads |-> "idle"]
    /\ stack = [t \in Threads |-> << >>]
    /\ reg = [t \in Threads |-> NoResult]
    /\ saved = [t \in Threads |-> None]
    /\ op = [t \in Threads |-> "none"]
    /\ quick = [t \in Threads |-> FALSE]
    /\ cwd0 = [t \in Threads |-> Home]
    /\ started = [t \in Threads |-> NoCaches]
    /\ log = [t \in Threads |-> << >>]
    /\ last = [t \in Threads |-> NoCall]
    /\ calls = 0
    /\ notFound = 0
    /\ compiles = [all |-> 0, ok |-> 0]
    /\ arg = [t \in Threads |-> None]
    /\ clones = {}
    /\ projects = {}

\* Any number of callers share the instance.
Init == InitWith(Threads, SharedLoads)

\* One caller uses the instance: its calls never overlap.
InitSeq == InitWith({1}, Loads)

(* ------------------------- starting a call ---------------------------- *)

\* A caller may start a top-level call while the budget of calls lasts.
CanStart(t) ==
    /\ t \in callers
    /\ pc[t] = "idle"
    /\ calls < MaxCalls

Start(t, name, entry, q) ==
    /\ CanStart(t)
    /\ pc' = [pc EXCEPT ![t] = entry]
    /\ op' = [op EXCEPT ![t] = name]
    /\ quick' = [quick EXCEPT ![t] = q]
    /\ cwd0' = [cwd0 EXCEPT ![t] = cwd]
    /\ started' = [started EXCEPT ![t] = Caches]
    /\ last' = [last EXCEPT ![t] = NoCall]
    /\ calls' = calls + 1
    /\ UNCHANGED << metadata, config, loaded, callers, _compile_output, _main_artifact, poisoned, cwd,
                    stack, reg, saved, log, compiles, notFound, arg, clones,
                    projects >>

CallCompileSafe(t) == Start(t, "compile_safe", "cs_is_cached", FALSE)

CallMainArtifact(t) == Start(t, "main_artifact", "ma_is_cached", FALSE)

CallTweakedCode(t) ==
    \E q \in BOOLEAN : Start(t, "tweaked_code", "tc_chain", q)

(* ---------------------------- compile_safe ---------------------------- *)

\* line 91: if Self::is_cached(self._compile_output.clone())
cs_is_cached(t) ==
    /\ pc[t] = "cs_is_cached"
    /\ IF "_compile_output" \in poisoned
       THEN Panic(t, "_compile_output")
       ELSE /\ Goto(t, IF is_cached(_compile_output)
                       THEN "cs_get_cached" ELSE "cs_current_dir")
            /\ UNCHANGED << poisoned, reg, log >>
    /\ UNCHANGED << instance, _compile_output, _main_artifact, cwd, saved,
                    compiles, notFound >>

\* lines 92 and 111: return Ok(Self::get_cache(self._compile_output.clone()))
cs_get_cache(t) ==
    /\ pc[t] \in {"cs_get_cached", "cs_return"}
    /\ IF "_compile_output" \in poisoned \/ ~is_cached(_compile_output)
       THEN Panic(t, "_compile_output")
       ELSE /\ Return(t, Ok(get_cache(_compile_output)), log[t], cwd)
            /\ UNCHANGED poisoned
    /\ UNCHANGED << instance, _compile_output, _main_artifact, cwd, saved,
                    compiles, notFound >>

\* line 98: let cwd = std::env::current_dir()?;
cs_current_dir(t) ==
    /\ pc[t] = "cs_current_dir"
    /\ \/ /\ saved' = [saved EXCEPT ![t] = Some(cwd)]
          /\ Goto(t, "cs_set_root")
          /\ UNCHANGED << reg, log >>
       \/ /\ Return(t, Err(<< "Io", "current_dir" >>), log[t], cwd)
          /\ UNCHANGED saved
    /\ UNCHANGED << instance, _compile_output, _main_artifact, poisoned, cwd,
                    compiles, notFound >>

\* line 99: std::env::set_current_dir(&self.root)?;
cs_set_root(t) ==
    /\ pc[t] = "cs_set_root"
    /\ \/ /\ cwd' = self(t).root
          /\ Goto(t, "cs_project")
          /\ UNCHANGED << reg, log, saved >>
       \/ /\ Return(t, Err(<< "Io", "set_current_dir" >>), log[t], cwd)
          /\ saved' = [saved EXCEPT ![t] = None]
          /\ UNCHANGED cwd
    /\ UNCHANGED << instance, _compile_output, _main_artifact, poisoned,
                    compiles, notFound >>

\* lines 102-104: let project = config.project()?;
cs_project(t) ==
    /\ pc[t] = "cs_project"
    /\ \/ /\ Goto(t, "cs_compile")
          /\ UNCHANGED << reg, log, saved >>
       \/ /\ Return(t, Err(<< "Config", "project" >>), log[t], cwd)
          /\ saved' = [saved EXCEPT ![t] = None]
    /\ UNCHANGED << instance, _compile_output, _main_artifact, poisoned, cwd,
                    compiles, notFound >>

\* cs_compile that, when the compilation fails, stores an empty output in the
\* cache before it returns the error.
cs_compile_caches_failure(t) ==
    /\ pc[t] = "cs_compile"
    /\ \/ /\ \E output \in Outputs : reg' = [reg EXCEPT ![t] = Ok(output)]
          /\ compiles' = [all |-> compiles.all + 1, ok |-> compiles.ok + 1]
          /\ log' = [log EXCEPT ![t] = Append(log[t], "compiler")]
          /\ Goto(t, "cs_restore")
          /\ UNCHANGED << saved, _compile_output >>
       \/ /\ compiles' = [compiles EXCEPT !.all = compiles.all + 1]
          /\ Return(t, Err(<< "Compile", "diagnostics" >>),
                    Append(log[t], "compiler_failed"), cwd)
          /\ saved' = [saved EXCEPT ![t] = None]
          /\ _compile_output' = Some(<< >>)
    /\ UNCHANGED << instance, _main_artifact, poisoned, cwd, notFound >>

\* line 105: let output = ProjectCompiler::new().compile(&project)?;
\* The output is held in the caller's register until it is stored.
cs_compile(t) ==
    /\ pc[t] = "cs_compile"
    /\ \/ /\ \E output \in Outputs : reg' = [reg EXCEPT ![t] = Ok(output)]
          /\ compiles' = [all |-> compiles.all + 1, ok |-> compiles.ok + 1]
          /\ log' = [log EXCEPT ![t] = Append(log[t], "compiler")]
          /\ Goto(t, "cs_restore")
          /\ UNCHANGED saved
       \/ /\ compiles' = [compiles EXCEPT !.all = compiles.all + 1]
          /\ Return(t, Err(<< "Compile", "diagnostics" >>),
                    Append(log[t], "compiler_failed"), cwd)
          /\ saved' = [saved EXCEPT ![t] = None]
    /\ UNCHANGED << instance, _compile_output, _main_artifact, poisoned, cwd,
                    notFound >>

\* line 107: std::env::set_current_dir(cwd)?;
cs_restore(t) ==
    /\ pc[t] = "cs_restore"
    /\ \/ /\ cwd' = unwrap(saved[t])
          /\ Goto(t, "cs_set_cache")
          /\ UNCHANGED << reg, log >>
       \/ /\ Return(t, Err(<< "Io", "set_current_dir" >>), log[t], cwd)
          /\ UNCHANGED cwd
    /\ saved' = [saved EXCEPT ![t] = None]
    /\ UNCHANGED << instance, _compile_output, _main_artifact, poisoned,
                    compiles, notFound >>

\* line 110: Self::set_cache(self._compile_output.clone(), output);
cs_set_cache(t) ==
    /\ pc[t] = "cs_set_cache"
    /\ IF "_compile_output" \in poisoned
       THEN /\ Panic(t, "_compile_output")
            /\ UNCHANGED _compile_output
       ELSE /\ _compile_output' = set_cache(_compile_output, unwrap(reg[t].val))
            /\ reg' = [reg EXCEPT ![t] = NoResult]
            /\ Goto(t, "cs_return")
            /\ UNCHANGED << poisoned, log >>
    /\ UNCHANGED << instance, _main_artifact, cwd, saved, compiles, notFound >>

(* --------------------------- main_artifact ---------------------------- *)

\* The positions of the artifacts of `output` named `name`.
Matches(output, name) == {i \in 1..Len(output) : output[i].name = name}

\* find without the test of the contract name: the first artifact.
find_ignores_name(output, name) ==
    IF output = << >> THEN None ELSE Some(output[1])

\* find that keeps the last artifact with the name instead of the first.
find_last(output, name) ==
    IF Matches(output, name) = {}
    THEN None
    ELSE Some(output[CHOOSE i \in Matches(output, name) :
                         \A j \in Matches(output, name) : j <= i])

\* lines 122-124: output.artifacts_with_files().find(|(_, contract_name, _)|
\* **contract_name == target): the first artifact, in iteration order, with
\* that contract name.
find(output, name) ==
    IF Matches(output, name) = {}
    THEN None
    ELSE Some(output[CHOOSE i \in Matches(output, name) :
                         \A j \in Matches(output, name) : i <= j])

\* ma_is_cached without the early return: the artifact is resolved anew.
ma_is_cached_always_misses(t) ==
    /\ pc[t] = "ma_is_cached"
    /\ Call(t, "cs_is_cached", "ma_find")
    /\ UNCHANGED << instance, _compile_output, _main_artifact, poisoned, cwd,
                    reg, log, saved, compiles, notFound >>

\* lines 117-121: if Self::is_cached(self._main_artifact.clone()), and on a
\* miss the call of self.compile_safe().
ma_is_cached(t) ==
    /\ pc[t] = "ma_is_cached"
    /\ IF "_main_artifact" \in poisoned
       THEN Panic(t, "_main_artifact")
       ELSE /\ IF is_cached(_main_artifact)
               THEN Goto(t, "ma_get_cached")
               ELSE Call(t, "cs_is_cached", "ma_find")
            /\ UNCHANGED << poisoned, reg, log >>
    /\ UNCHANGED << instance, _compile_output, _main_artifact, cwd, saved,
                    compiles, notFound >>

\* lines 118 and 131: return Ok(Self::get_cache(self._main_artifact.clone()))
ma_get_cache(t) ==
    /\ pc[t] \in {"ma_get_cached", "ma_return"}
    /\ IF "_main_artifact" \in poisoned \/ ~is_cached(_main_artifact)
       THEN Panic(t, "_main_artifact")
       ELSE /\ Return(t, Ok(get_cache(_main_artifact)), log[t], cwd)
            /\ UNCHANGED poisoned
    /\ UNCHANGED << instance, _compile_output, _main_artifact, cwd, saved,
                    compiles, notFound >>

\* lines 121-127: the `?` on compile_safe's result, then the search of the
\* output for the target contract, failing when no artifact has its name.
ma_find(t) ==
    /\ pc[t] = "ma_find"
    /\ IF ~reg[t].ok
       THEN /\ Return(t, reg[t], log[t], cwd)
            /\ UNCHANGED notFound
       ELSE IF find(unwrap(reg[t].val), self(t).metadata.target_contract) = None
       THEN /\ Return(t, Err(<< "NotFound", self(t).metadata.target_contract >>),
                      Append(log[t], "search"), cwd)
            /\ notFound' = notFound + 1
       ELSE /\ reg' = [reg EXCEPT ![t] =
                   Ok(unwrap(find(unwrap(reg[t].val),
                                     self(t).metadata.target_contract)))]
            /\ log' = [log EXCEPT ![t] = Append(log[t], "search")]
            /\ Goto(t, "ma_set_cache")
            /\ UNCHANGED notFound
    /\ UNCHANGED << instance, _compile_output, _main_artifact, poisoned, cwd,
                    saved, compiles >>

\* ma_set_cache that also takes the artifact's storage layout as the new
\* baseline in the metadata.
ma_set_cache_updates_layout(t) ==
    /\ pc[t] = "ma_set_cache"
    /\ _main_artifact' = set_cache(_main_artifact, unwrap(reg[t].val))
    /\ metadata' = [metadata EXCEPT !.storage_layout = unwrap(reg[t].val).layout]
    /\ reg' = [reg EXCEPT ![t] = NoResult]
    /\ Goto(t, "ma_return")
    /\ UNCHANGED << config, loaded, callers, calls, arg, clones, projects,
                    _compile_output, poisoned, cwd, saved, log, compiles,
                    notFound >>

\* line 130: Self::set_cache(self._main_artifact.clone(), artifact.clone());
ma_set_cache(t) ==
    /\ pc[t] = "ma_set_cache"
    /\ IF "_main_artifact" \in poisoned
       THEN /\ Panic(t, "_main_artifact")
            /\ UNCHANGED _main_artifact
       ELSE /\ _main_artifact' = set_cache(_main_artifact, unwrap(reg[t].val))
            /\ reg' = [reg EXCEPT ![t] = NoResult]
            /\ Goto(t, "ma_return")
            /\ UNCHANGED << poisoned, log >>
    /\ UNCHANGED << instance, _compile_output, cwd, saved, compiles, notFound >>

(* ------------- entering the functions tweaked_code calls -------------- *)

\* check_storage_compatibility(project), called to return to `cont`: the
\* check first resolves the target artifact of the current compile ...
check_storage_compatibility(t, cont) ==
    /\ pc' = [pc EXCEPT ![t] = "ma_is_cached"]
    /\ stack' = [stack EXCEPT ![t] = << "sc_compare", cont >> \o stack[t]]
    /\ UNCHANGED << op, quick, cwd0, started, last >>

\* generate_tweaked_code(rpc, project, quick), called in tail position: the
\* generator first resolves the target artifact ...
generate_tweaked_code(t) ==
    /\ pc' = [pc EXCEPT ![t] = "ma_is_cached"]
    /\ stack' = [stack EXCEPT ![t] = << "gt_emit" >> \o stack[t]]
    /\ UNCHANGED << op, quick, cwd0, started, last >>

(* ---------------------------- tweaked_code ---------------------------- *)

\* chain_id with an unset chain taken to be the descriptor's chain.
chain_id_unset_matches(cfg) ==
    IF cfg.chain = None THEN metadata.chain_id ELSE unwrap(cfg.chain)

\* line 137: self.config.chain.unwrap_or_default().id()
chain_id(cfg) == IF cfg.chain = None THEN DefaultChainId ELSE unwrap(cfg.chain)

\* lines 137-145: the chain id check, and when it passes the call of
\* super::compatibility::check_storage_compatibility(self).
tc_chain(t) ==
    /\ pc[t] = "tc_chain"
    /\ IF chain_id(self(t).config) # self(t).metadata.chain_id
       THEN Return(t, Err(<< "ChainMismatch", chain_id(self(t).config),
                             self(t).metadata.chain_id >>),
                   log[t], cwd)
       ELSE /\ check_storage_compatibility(t, "tc_generate")
            /\ log' = [log EXCEPT ![t] = Append(log[t], "storage")]
            /\ UNCHANGED reg
    /\ UNCHANGED << instance, _compile_output, _main_artifact, poisoned, cwd,
                    saved, compiles, notFound >>

\* tc_generate without the `?` on the storage check's result.
tc_generate_ignores_check(t) ==
    /\ pc[t] = "tc_generate"
    /\ generate_tweaked_code(t)
    /\ reg' = [reg EXCEPT ![t] = NoResult]
    /\ log' = [log EXCEPT ![t] =
           log[t] \o << IF reg[t].ok THEN "storage_ok" ELSE "storage_err",
                        "generate" >>]
    /\ UNCHANGED << instance, _compile_output, _main_artifact, poisoned, cwd,
                    saved, compiles, notFound >>

\* tc_generate that runs the storage check a second time when it failed.
tc_generate_retries(t) ==
    /\ pc[t] = "tc_generate"
    /\ IF ~reg[t].ok /\ ~Has(log[t], "storage_err")
       THEN /\ check_storage_compatibility(t, "tc_generate")
            /\ reg' = [reg EXCEPT ![t] = NoResult]
            /\ log' = [log EXCEPT ![t] = log[t] \o << "storage_err", "storage" >>]
       ELSE IF ~reg[t].ok
       THEN Return(t, reg[t], Append(log[t], "storage_err"), cwd)
       ELSE /\ generate_tweaked_code(t)
            /\ reg' = [reg EXCEPT ![t] = NoResult]
            /\ log' = [log EXCEPT ![t] = log[t] \o << "storage_ok", "generate" >>]
    /\ UNCHANGED << instance, _compile_output, _main_artifact, poisoned, cwd,
                    saved, compiles, notFound >>

\* lines 145-149: the `?` on the storage check's result, then the call of
\* super::code::generate_tweaked_code(rpc, self, quick), whose result (the
\* error by `?`, the code as Ok(code)) is tweaked_code's own.  The log takes
\* the result the storage check returned.
tc_generate(t) ==
    /\ pc[t] = "tc_generate"
    /\ IF ~reg[t].ok
       THEN Return(t, reg[t], Append(log[t], "storage_err"), cwd)
       ELSE /\ generate_tweaked_code(t)
            /\ reg' = [reg EXCEPT ![t] = NoResult]
            /\ log' = [log EXCEPT ![t] = log[t] \o << "storage_ok", "generate" >>]
    /\ UNCHANGED << instance, _compile_output, _main_artifact, poisoned, cwd,
                    saved, compiles, notFound >>

(* -------------------- check_storage_compatibility --------------------- *)

\* The current layout holds no variable at the slot and offset of recorded
\* variable r whose type has r's size and encoding.
Unmatched(r, current) ==
    ~ \E i \in 1..Len(current) :
          /\ current[i].slot = r.slot
          /\ current[i].offset = r.offset
          /\ current[i].size = r.size
          /\ current[i].encoding = r.encoding

\* A variable of the current layout reuses the slot and offset that recorded
\* variable r claims and is a different variable (it has another label).
Conflict(r, current) ==
    \E i \in 1..Len(current) :
        /\ current[i].slot = r.slot
        /\ current[i].offset = r.offset
        /\ current[i].label # r.label

\* A recorded variable is violated when the current layout has no variable at
\* its slot and offset with its size and encoding, or when a different
\* variable has taken its slot and offset.
Violated(r, current) == Unmatched(r, current) \/ Conflict(r, current)

\* Violations that stops at the first violated variable.
Violations_first_only(recorded, current) ==
    {i \in 1..Len(recorded) :
        /\ Violated(recorded[i], current)
        /\ \A j \in 1..(i - 1) : ~Violated(recorded[j], current)}

\* Every violated variable of the recorded layout.
Violations(recorded, current) ==
    {i \in 1..Len(recorded) : Violated(recorded[i], current)}

\* Where the current layout holds the variable labelled `label`: its first
\* variable with that label, None when it has none.
Actual(label, current) ==
    IF \A i \in 1..Len(current) : current[i].label # label
    THEN None
    ELSE Some(current[CHOOSE i \in 1..Len(current) :
                          /\ current[i].label = label
                          /\ \A j \in 1..(i - 1) : current[j].label # label])

\* The error's list: for every violated variable its label, the recorded
\* (expected) slot, offset and type and the actual ones.
Report(recorded, current) ==
    {[label |-> recorded[i].label,
      expected |-> recorded[i],
      actual |-> Actual(recorded[i].label, current)] :
        i \in Violations(recorded, current)}

\* ... and compares its layout with metadata.storage_layout: the check
\* succeeds when no recorded variable is violated (none unmatched, none in
\* conflict), and fails with the report of all violated ones otherwise.
sc_compare(t) ==
    /\ pc[t] = "sc_compare"
    /\ IF ~reg[t].ok
       THEN Return(t, reg[t], log[t], cwd)
       ELSE IF Violations(self(t).metadata.storage_layout,
                          unwrap(reg[t].val).layout) = {}
       THEN Return(t, Ok("unit"), log[t], cwd)
       ELSE Return(t, Err(<< "IncompatibleStorage",
                             Report(self(t).metadata.storage_layout,
                                    unwrap(reg[t].val).layout) >>),
                   log[t], cwd)
    /\ UNCHANGED << instance, _compile_output, _main_artifact, poisoned, cwd,
                    saved, compiles, notFound >>

(* ----------------------- generate_tweaked_code ------------------------ *)

\* ... and, in quick mode, returns its runtime bytecode as compiled; in full
\* mode it fetches the chain state over RPC and replays the deployment.
gt_emit(t) ==
    /\ pc[t] = "gt_emit"
    /\ \/ /\ ~reg[t].ok
          /\ Return(t, reg[t], log[t], cwd)
       \/ /\ reg[t].ok
          /\ quick[t]
          /\ Return(t, Ok(<< "runtime", unwrap(reg[t].val).code >>), log[t], cwd)
       \/ /\ reg[t].ok
          /\ ~quick[t]
          /\ \E res \in {Ok(<< "replayed", unwrap(reg[t].val).code >>),
                         Err(<< "Rpc", "unreachable" >>),
                         Err(<< "Replay", "constructor" >>)} :
                Return(t, res, Append(log[t], "rpc"), cwd)
    /\ UNCHANGED << instance, _compile_output, _main_artifact, poisoned, cwd,
                    saved, compiles, notFound >>

(* --------------------------- load_with_root --------------------------- *)

\* Path::is_absolute: the path starts at the root directory.
is_absolute(path) == path # << >> /\ path[1] = "/"

\* The descriptor schema: the fields of CloneMetadata under serde's
\* rename_all = "camelCase".
DescriptorFields ==
    {"path", "targetContract", "address", "chainId", "creationTransaction",
     "deployer", "constructorArguments", "storageLayout"}

\* The .clone.meta text that holds metadata md.
Descriptor(md) ==
    [path |-> md.path,
     targetContract |-> md.target_contract,
     address |-> md.address,
     chainId |-> md.chain_id,
     creationTransaction |-> md.creation_transaction,
     deployer |-> md.deployer,
     constructorArguments |-> md.constructor_arguments,
     storageLayout |-> md.storage_layout]

\* The file <root>/.clone.meta: the project root holds the descriptor the
\* instance was loaded from, BadDescriptor one that lacks required fields,
\* any other directory none.
Files(root) ==
    IF root = Root THEN Some(Descriptor(loaded))
    ELSE IF root = BadDescriptor THEN Some([targetContract |-> "Target"])
    ELSE None

\* The foundry.toml Config::load_with_root reads under root: the project's at
\* the project root, the default configuration elsewhere.
Config_load_with_root(root) ==
    IF root = Root THEN config ELSE [chain |-> None]

\* line 183: std::fs::read_to_string(path)
read_to_string(root) ==
    IF Files(root) = None
    THEN Err(<< "NotFound", ".clone.meta" >>)
    ELSE Ok(unwrap(Files(root)))

\* CloneMetadata::default(), field by field.
DefaultMetadata ==
    [path |-> "",
     target_contract |-> "",
     address |-> "0x00",
     chain_id |-> 0,
     creation_transaction |-> "0x00",
     deployer |-> "0x00",
     constructor_arguments |-> "0x",
     storage_layout |-> << >>]

\* from_str that fills the fields a descriptor lacks with their defaults.
from_str_lenient(text) ==
    IF DescriptorFields \subseteq DOMAIN text
    THEN Ok([path |-> text.path,
             target_contract |-> text.targetContract,
             address |-> text.address,
             chain_id |-> text.chainId,
             creation_transaction |-> text.creationTransaction,
             deployer |-> text.deployer,
             constructor_arguments |-> text.constructorArguments,
             storage_layout |-> text.storageLayout])
    ELSE Ok(DefaultMetadata)

\* line 184: serde_json::from_str(&metadata): every field is required.
from_str(text) ==
    IF DescriptorFields \subseteq DOMAIN text
    THEN Ok([path |-> text.path,
             target_contract |-> text.targetContract,
             address |-> text.address,
             chain_id |-> text.chainId,
             creation_transaction |-> text.creationTransaction,
             deployer |-> text.deployer,
             constructor_arguments |-> text.constructorArguments,
             storage_layout |-> text.storageLayout])
    ELSE Err(<< "Parse", ".clone.meta" >>)

\* lines 181-186: CloneMetadata::load_with_root(root)
CloneMetadata_load_with_root(root) ==
    IF ~read_to_string(root).ok
    THEN read_to_string(root)
    ELSE from_str(unwrap(read_to_string(root).val))

\* The variables load_with_root, Default and Clone leave alone.
untouched ==
    << metadata, config, loaded, callers, _compile_output, _main_artifact,
       poisoned, compiles, notFound >>

\* A caller calls ClonedProject::load_with_root(root).
CallLoadWithRoot(t) ==
    \E root \in Roots :
        /\ CanStart(t)
        /\ pc' = [pc EXCEPT ![t] = "lw_assert"]
        /\ op' = [op EXCEPT ![t] = "load_with_root"]
        /\ arg' = [arg EXCEPT ![t] = Some(root)]
        /\ cwd0' = [cwd0 EXCEPT ![t] = cwd]
        /\ last' = [last EXCEPT ![t] = NoCall]
        /\ calls' = calls + 1
        /\ UNCHANGED << untouched, cwd, stack, reg, saved, quick, started, log,
                        clones, projects >>

\* line 71: assert!(root.is_absolute()): a failed assertion panics, which
\* ends the caller; it returns no Result.
lw_assert(t) ==
    /\ pc[t] = "lw_assert"
    /\ pc' = [pc EXCEPT ![t] = IF is_absolute(unwrap(arg[t]))
                               THEN "lw_current_dir" ELSE "panicked"]
    /\ UNCHANGED << untouched, cwd, stack, reg, saved, op, quick, cwd0,
                    started, log, last, calls, arg, clones, projects >>

\* line 72: let cwd = std::env::current_dir()?;
lw_current_dir(t) ==
    /\ pc[t] = "lw_current_dir"
    /\ \/ /\ saved' = [saved EXCEPT ![t] = Some(cwd)]
          /\ Goto(t, "lw_set_root")
          /\ UNCHANGED << reg, log, arg >>
       \/ /\ Return(t, Err(<< "Io", "current_dir" >>), log[t], cwd)
          /\ arg' = [arg EXCEPT ![t] = None]
          /\ UNCHANGED saved
    /\ UNCHANGED << untouched, cwd, calls, clones, projects >>

\* line 73: std::env::set_current_dir(&root)?;
lw_set_root(t) ==
    /\ pc[t] = "lw_set_root"
    /\ \/ /\ cwd' = unwrap(arg[t])
          /\ log' = [log EXCEPT ![t] = Append(log[t], "chdir")]
          /\ Goto(t, "lw_config")
          /\ UNCHANGED << reg, saved, arg >>
       \/ /\ Return(t, Err(<< "Io", "set_current_dir" >>), log[t], cwd)
          /\ saved' = [saved EXCEPT ![t] = None]
          /\ arg' = [arg EXCEPT ![t] = None]
          /\ UNCHANGED cwd
    /\ UNCHANGED << untouched, calls, clones, projects >>

\* line 74: let config = Config::load_with_root(&root);
lw_config(t) ==
    /\ pc[t] = "lw_config"
    /\ reg' = [reg EXCEPT ![t] = Ok(Config_load_with_root(unwrap(arg[t])))]
    /\ log' = [log EXCEPT ![t] = Append(log[t], "config")]
    /\ Goto(t, "lw_restore")
    /\ UNCHANGED << untouched, cwd, saved, calls, arg, clones, projects >>

\* line 75: std::env::set_current_dir(cwd)?;
lw_restore(t) ==
    /\ pc[t] = "lw_restore"
    /\ \/ /\ cwd' = unwrap(saved[t])
          /\ log' = [log EXCEPT ![t] = Append(log[t], "restored")]
          /\ Goto(t, "lw_metadata")
          /\ UNCHANGED << reg, arg >>
       \/ /\ Return(t, Err(<< "Io", "set_current_dir" >>), log[t], cwd)
          /\ arg' = [arg EXCEPT ![t] = None]
          /\ UNCHANGED cwd
    /\ saved' = [saved EXCEPT ![t] = None]
    /\ UNCHANGED << untouched, calls, clones, projects >>

\* lines 76-83: let metadata = CloneMetadata::load_with_root(&root)?; and the
\* construction of the ClonedProject, its two caches new and empty.
lw_metadata(t) ==
    /\ pc[t] = "lw_metadata"
    /\ IF ~CloneMetadata_load_with_root(unwrap(arg[t])).ok
       THEN /\ Return(t, CloneMetadata_load_with_root(unwrap(arg[t])),
                      Append(log[t], "metadata_err"), cwd)
            /\ UNCHANGED projects
       ELSE /\ Return(t, Ok(ClonedProject(
                               unwrap(arg[t]), unwrap(reg[t].val),
                               unwrap(CloneMetadata_load_with_root(unwrap(arg[t])).val),
                               calls)),
                      Append(log[t], "metadata"), cwd)
            /\ projects' = projects \cup
                  {ClonedProject(
                      unwrap(arg[t]), unwrap(reg[t].val),
                      unwrap(CloneMetadata_load_with_root(unwrap(arg[t])).val),
                      calls)}
    /\ arg' = [arg EXCEPT ![t] = None]
    /\ UNCHANGED << untouched, cwd, saved, calls, clones >>

(* -------------------------- Default and Clone ------------------------- *)

\* line 22, derive(Default): every field its default, the caches new and empty.
default_project(t) ==
    /\ CanStart(t)
    /\ calls' = calls + 1
    /\ projects' = projects \cup
          {ClonedProject(EmptyPath, [chain |-> None], DefaultMetadata, calls + 1)}
    /\ UNCHANGED << untouched, cwd, pc, stack, reg, saved, op, quick, cwd0,
                    started, log, last, arg, clones >>

\* line 22, derive(Clone): caller t clones the instance, sets the clone's
\* metadata.target_contract (a public field) and goes on with the clone.
clone_project(t) ==
    /\ t \in callers
    /\ pc[t] = "idle"
    /\ t \notin clones
    /\ clones' = clones \cup {t}
    /\ projects' = projects \cup
          {this, [this EXCEPT !.metadata.target_contract = "Other"]}
    /\ UNCHANGED << untouched, cwd, pc, stack, reg, saved, op, quick, cwd0,
                    started, log, last, calls, arg >>

(* ------------------------- equality and order ------------------------- *)

\* The order of path components: the root directory before every normal
\* component, normal components in the order of their bytes.
ComponentOrder == << "/", "bad", "empty", "home", "proj" >>

Rank(c) == CHOOSE i \in 1..Len(ComponentOrder) : ComponentOrder[i] = c

\* PathBuf's Ord: the lexicographic comparison of the components.
RECURSIVE path_cmp(_, _)
path_cmp(p, q) ==
    IF p = << >> /\ q = << >> THEN "Equal"
    ELSE IF p = << >> THEN "Less"
    ELSE IF q = << >> THEN "Greater"
    ELSE IF Rank(Head(p)) < Rank(Head(q)) THEN "Less"
    ELSE IF Rank(Head(p)) > Rank(Head(q)) THEN "Greater"
    ELSE path_cmp(Tail(p), Tail(q))

\* eq that compares every field of the two values.
eq_all_fields(a, b) == a = b

\* lines 33-37: self.root == other.root
eq(a, b) == a.root = b.root

\* lines 47-51: self.root.cmp(&other.root)
cmp(a, b) == path_cmp(a.root, b.root)

\* lines 41-45: Some(self.cmp(other))
partial_cmp(a, b) == Some(cmp(a, b))

\* A caller compares two of the values obtained so far.
compare_projects(t) ==
    /\ CanStart(t)
    /\ calls' = calls + 1
    /\ \E a, b \in projects :
          last' = [last EXCEPT ![t] =
                      [NoCall EXCEPT
                          !.op = "cmp",
                          !.res = Ok([a |-> a, b |-> b, eq |-> eq(a, b),
                                      cmp |-> cmp(a, b),
                                      partial_cmp |-> partial_cmp(a, b)])]]
    /\ UNCHANGED << untouched, cwd, pc, stack, reg, saved, op, quick, cwd0,
                    started, log, arg, clones, projects >>

(* ------------------------------- Next --------------------------------- *)

Next ==
    \E t \in Threads :
        \/ CallCompileSafe(t)
        \/ CallMainArtifact(t)
        \/ CallTweakedCode(t)
        \/ cs_is_cached(t)
        \/ cs_get_cache(t)
        \/ cs_current_dir(t)
        \/ cs_set_root(t)
        \/ cs_project(t)
        \/ cs_compile(t)
        \/ cs_restore(t)
        \/ cs_set_cache(t)
        \/ ma_is_cached(t)
        \/ ma_get_cache(t)
        \/ ma_find(t)
        \/ ma_set_cache(t)
        \/ tc_chain(t)
        \/ tc_generate(t)
        \/ sc_compare(t)
        \/ gt_emit(t)

Spec == Init /\ [][Next]_vars

SpecSeq == InitSeq /\ [][Next]_vars

\* One caller obtains ClonedProject values (load_with_root, Default, Clone)
\* and compares them.
NextLoad ==
    \E t \in Threads :
        \/ CallLoadWithRoot(t)
        \/ lw_assert(t)
        \/ lw_current_dir(t)
        \/ lw_set_root(t)
        \/ lw_config(t)
        \/ lw_restore(t)
        \/ lw_metadata(t)
        \/ default_project(t)
        \/ clone_project(t)
        \/ compare_projects(t)

SpecLoad == InitSeq /\ [][NextLoad]_vars

\* One caller uses the instance and, from some point on, a modified clone of it.
NextClone == Next \/ \E t \in Threads : clone_project(t)

SpecClone == InitSeq /\ [][NextClone]_vars

\* The storage variables of the layouts compared: in a slot of 32 bytes a
\* value of 16 bytes at offset 0 or 16 or a value of 32 bytes at offset 0,
\* stored in place, or a mapping.
StorageVars ==
    {Var(slot, 0, 16, "inplace", label) : slot \in {0, 1}, label \in {"a", "b"}}
    \cup {Var(slot, 16, 16, "inplace", label) : slot \in {0, 1}, label \in {"a", "b"}}
    \cup {Var(slot, 0, 32, enc, label) :
             slot \in {0, 1}, enc \in {"inplace", "mapping"}, label \in {"a", "b"}}

\* Variable v lies wholly before variable w.
Precedes(v, w) ==
    \/ v.slot < w.slot
    \/ v.slot = w.slot /\ v.offset + v.size <= w.offset

\* The layouts a compiler emits over these variables: up to two variables with
\* distinct labels, in storage order, none overlapping another.
Layouts ==
    {<< >>} \cup {<< v >> : v \in StorageVars}
    \cup {<< pair[1], pair[2] >> :
             pair \in {vw \in StorageVars \X StorageVars :
                          Precedes(vw[1], vw[2]) /\ vw[1].label # vw[2].label}}

\* The storage check about to compare a recorded layout with the layout of
\* the target artifact the current compile produced.
InitCheck ==
    /\ callers = {1}
    /\ config = [chain |-> None]
    /\ \E recorded \in Layouts :
          metadata = [CloneMetadata(DefaultChainId) EXCEPT !.storage_layout = recorded]
    /\ loaded = metadata
    /\ _compile_output = None
    /\ _main_artifact = None
    /\ poisoned = {}
    /\ cwd = Home
    /\ pc = [t \in Threads |-> IF t = 1 THEN "sc_compare" ELSE "idle"]
    /\ stack = [t \in Threads |-> << >>]
    /\ \E current \in Layouts :
          reg = [t \in Threads |->
                    IF t = 1 THEN Ok(Artifact("A.sol", "Target", current, "c1"))
                    ELSE NoResult]
    /\ saved = [t \in Threads |-> None]
    /\ op = [t \in Threads |-> IF t = 1 THEN "check_storage_compatibility" ELSE "none"]
    /\ quick = [t \in Threads |-> FALSE]
    /\ cwd0 = [t \in Threads |-> Home]
    /\ started = [t \in Threads |-> NoCaches]
    /\ log = [t \in Threads |-> << >>]
    /\ last = [t \in Threads |-> NoCall]
    /\ calls = 1
    /\ notFound = 0
    /\ compiles = [all |-> 0, ok |-> 0]
    /\ arg = [t \in Threads |-> None]
    /\ clones = {}
    /\ projects = {}

NextCheck == \E t \in Threads : sc_compare(t)

SpecCheck == InitCheck /\ [][NextCheck]_vars

(* ------------------------------ claims -------------------------------- *)

\* The finished calls: the last call of each caller that has finished one.
Done == {t \in callers : last[t].op # "none"}

\* The kind of a result's error ("" for Ok).
Kind(res) == IF res.err = None THEN "" ELSE res.err[1]

\* C1: for a single caller, any sequence of compile_safe calls on the
\* instance runs the compiler successfully at most once: the first success is
\* stored and every later call is served from the cache.
C1_CompilesOnce == compiles.ok <= 1

\* C2: with concurrent callers the check / compute / store sequence of
\* compile_safe is one atomic unit: no two callers are both inside a call in
\* which they observed an empty cache and ran the compiler successfully.
C2_CompileIsAtomic ==
    \A t, u \in callers :
        t # u => ~ /\ pc[t] \in {"cs_restore", "cs_set_cache", "cs_return"}
                   /\ pc[u] \in {"cs_restore", "cs_set_cache", "cs_return"}

\* C3 (state part): a call during which the compiler failed has returned the
\* compile error and has left the compile-output cache empty.
C3_FailedCompile ==
    \A t \in Done :
        Has(last[t].log, "compiler_failed") =>
            /\ ~last[t].res.ok
            /\ last[t].res.err = << "Compile", "diagnostics" >>
            /\ _compile_output = None

\* C3: if the compiler fails inside compile_safe, the call returns the compile
\* error and the compile-output cache stays empty, and a compile_safe that
\* finds the cache empty goes on to compile (it returns neither a cached value
\* nor a cached failure).
C3_FailureNotCached ==
    [][ /\ C3_FailedCompile'
        /\ \A t \in callers :
              (pc[t] = "cs_is_cached" /\ _compile_output = None /\ pc'[t] # pc[t])
                  => pc'[t] = "cs_current_dir" ]_vars

\* C3 witness: a compilation failed, the retry compiled and was stored.
C3_Witness ==
    /\ compiles = [all |-> 2, ok |-> 1]
    /\ _compile_output # None
    /\ \E t \in Done : last[t].op = "compile_safe" /\ last[t].res.ok
                       /\ Has(last[t].log, "compiler")

\* The project's configured chain id, defaulted to mainnet when unset.
ConfiguredChain == IF config.chain = None THEN 1 ELSE config.chain[1]

ChainMismatch == ConfiguredChain # metadata.chain_id

\* C4: tweaked_code on a project whose configured chain id (defaulted when
\* unset) differs from metadata.chain_id returns the chain-mismatch error and
\* that call starts no storage check, no compilation and no generation, for
\* quick = TRUE and quick = FALSE.
C4_ChainMismatchFailsFirst ==
    ChainMismatch =>
        /\ \A t \in callers :
              op[t] = "tweaked_code" =>
                  pc[t] = "tc_chain" /\ log[t] = << >> /\ stack[t] = << >>
        /\ \A t \in Done :
              last[t].op = "tweaked_code" =>
                  /\ last[t].res = Err(<< "ChainMismatch", ConfiguredChain,
                                          metadata.chain_id >>)
                  /\ last[t].log = << >>

\* C4 witness: with the chain unset and the descriptor on another chain, a
\* quick and a full tweaked_code have both returned.
C4_Witness ==
    /\ config.chain = None
    /\ ChainMismatch
    /\ \E t, u \in Done :
          /\ last[t].op = "tweaked_code" /\ last[t].quick
          /\ last[u].op = "tweaked_code" /\ ~last[u].quick

\* The stages of one tweaked_code call, read off its log L: generation starts
\* only after the storage check has returned success, the storage check only
\* after the chain check has passed, the network is queried only by the
\* generation, and a failed storage check is followed by no generation.
StagesInOrder(L) ==
    /\ \A k \in 1..Len(L) :
          L[k] = "generate" =>
              \E i, j \in 1..Len(L) :
                  i < j /\ j < k /\ L[i] = "storage" /\ L[j] = "storage_ok"
    /\ \A k \in 1..Len(L) :
          L[k] = "rpc" => \E j \in 1..Len(L) : j < k /\ L[j] = "generate"
    /\ Has(L, "storage") => ~ChainMismatch
    /\ Has(L, "storage_err") => ~Has(L, "generate")

\* C5: in tweaked_code the stages are strictly ordered chain check, storage
\* compatibility check, generation: generation starts only after the storage
\* check of the same call has returned success, and a storage incompatibility
\* ends the call with that error without generation starting.
C5_StagesOrdered ==
    /\ \A t \in callers :
          op[t] = "tweaked_code" =>
              /\ StagesInOrder(log[t])
              /\ (pc[t] = "gt_emit" \/ Has(stack[t], "gt_emit"))
                     => Has(log[t], "storage_ok")
    /\ \A t \in Done :
          last[t].op = "tweaked_code" =>
              /\ StagesInOrder(last[t].log)
              /\ last[t].res.ok => Has(last[t].log, "generate")
              /\ Has(last[t].log, "storage_err")
                     => ~last[t].res.ok /\ Kind(last[t].res) # "Rpc"
              /\ Kind(last[t].res) = "IncompatibleStorage"
                     => Has(last[t].log, "storage_err")

\* C5 witness: a tweaked_code that the storage check ended, with the layout
\* of the first Target of OutDup, which has moved the recorded variable.
C5_Witness ==
    \E t \in Done :
        /\ last[t].op = "tweaked_code"
        /\ last[t].res = Err(<< "IncompatibleStorage",
                                {[label |-> "a", expected |-> LayoutA[1],
                                  actual |-> Some(LayoutMoved[1])]} >>)
        /\ last[t].log = << "storage", "compiler", "search", "storage_err" >>

\* Whether the cached compile output holds no artifact named as the target.
TargetMissing ==
    /\ _compile_output # None
    /\ \A i \in 1..Len(_compile_output[1]) :
          _compile_output[1][i].name # metadata.target_contract

\* C6: main_artifact on a compile output with no artifact named
\* metadata.target_contract returns an error naming that contract and leaves
\* the target-artifact cache empty while the compile output stays cached, so
\* a repeated call fails the same way without compiling again.
C6_NotFoundNotCached ==
    \A t \in Done :
        last[t].op = "main_artifact" =>
            /\ Kind(last[t].res) = "NotFound" =>
                  /\ last[t].res.err = << "NotFound", metadata.target_contract >>
                  /\ _main_artifact = None
                  /\ TargetMissing
            /\ TargetMissing =>
                  /\ last[t].res = Err(<< "NotFound", metadata.target_contract >>)
                  /\ last[t].started.co => last[t].log = << "search" >>

\* C6 witness: the second of two calls that found no target, after the one
\* compilation of the instance.
C6_Witness ==
    /\ notFound = 2
    /\ compiles = [all |-> 1, ok |-> 1]
    /\ \E t \in Done :
          /\ last[t].op = "main_artifact"
          /\ last[t].started.co
          /\ Kind(last[t].res) = "NotFound"

\* C7 (state part): a finished main_artifact that found the artifact cache
\* populated returned the cached artifact without compiling or searching, and
\* every artifact main_artifact has returned is the cached one.
C7_FromCache ==
    \A t \in Done :
        last[t].op = "main_artifact" =>
            /\ last[t].res.ok => last[t].res.val = _main_artifact
            /\ last[t].started.ma => last[t].res.ok /\ last[t].log = << >>

\* C7: once main_artifact has succeeded on the instance, every later call
\* returns the identical artifact, from the artifact cache, without calling
\* compile_safe or searching the compile output again.
C7_ArtifactCached ==
    [][ /\ _main_artifact # None => _main_artifact' = _main_artifact
        /\ C7_FromCache'
        /\ \A t \in callers :
              (op[t] = "main_artifact" /\ started[t].ma /\ pc'[t] # pc[t])
                  => pc'[t] \in {"ma_get_cached", "idle"} ]_vars

\* C7 witness: a main_artifact call that started with the artifact cached.
C7_Witness ==
    \E t \in Done :
        /\ last[t].op = "main_artifact"
        /\ last[t].started.ma
        /\ last[t].res.ok

\* C8: both caches are write-once-then-stable, also under concurrent callers:
\* every store finds its cache empty, and a populated cache never changes.
C8_WriteOnce ==
    [][ /\ _compile_output # None => _compile_output' = _compile_output
        /\ _main_artifact # None => _main_artifact' = _main_artifact
        /\ \A t \in callers :
              /\ (pc[t] = "cs_set_cache" /\ pc'[t] = "cs_return")
                     => _compile_output = None
              /\ (pc[t] = "ma_set_cache" /\ pc'[t] = "ma_return")
                     => _main_artifact = None ]_vars

\* C9: the metadata is never changed after load: whatever compile_safe,
\* main_artifact and tweaked_code calls run, and however they end, every
\* field, metadata.storage_layout in particular, keeps the value parsed from
\* the descriptor.
C9_MetadataUnchanged ==
    /\ metadata = loaded
    /\ metadata.storage_layout = LayoutA

\* C9 witness: a tweaked_code has returned and the cached target artifact
\* has another storage layout than the recorded one.
C9_Witness ==
    /\ _main_artifact # None
    /\ _main_artifact[1].layout # metadata.storage_layout
    /\ \E t \in Done : last[t].op = "tweaked_code"

\* C10: tweaked_code, with the compile_safe it triggers, leaves the process
\* working directory as it found it, on every return path.
C10_CwdRestored ==
    \A t \in Done :
        last[t].op = "tweaked_code" => last[t].cwd1 = last[t].cwd0

\* Whether root holds a .clone.meta that lacks a field of the schema.
Malformed(root) ==
    /\ Files(root) # None
    /\ ~(DescriptorFields \subseteq DOMAIN Files(root)[1])

\* C11: load_with_root fails and yields no ClonedProject when .clone.meta is
\* absent under root or cannot be deserialized; once the load has reached the
\* descriptor the error returned is the not-found error, resp. the parse
\* error, of the metadata load, unchanged, and when it is returned the working
\* directory changed for the configuration is again the one the call found.
C11_LoadFailsWithoutDescriptor ==
    /\ \A t \in Done :
          last[t].op = "load_with_root" =>
              /\ (Files(last[t].arg[1]) = None \/ Malformed(last[t].arg[1]))
                     => ~last[t].res.ok /\ last[t].res.val = None
              /\ (Has(last[t].log, "restored") /\ Files(last[t].arg[1]) = None)
                     => last[t].res = Err(<< "NotFound", ".clone.meta" >>)
              /\ (Has(last[t].log, "restored") /\ Malformed(last[t].arg[1]))
                     => last[t].res = Err(<< "Parse", ".clone.meta" >>)
              /\ Kind(last[t].res) \in {"NotFound", "Parse"}
                     => /\ last[t].cwd1 = last[t].cwd0
                        /\ last[t].log = << "chdir", "config", "restored",
                                            "metadata_err" >>
    /\ \A p \in projects :
          p.root \in Roots => Files(p.root) # None /\ ~Malformed(p.root)

\* C11 witness: a load of the directory with the malformed descriptor has
\* returned the parse error, the working directory restored.
C11_Witness ==
    \E t \in Done :
        /\ last[t].op = "load_with_root"
        /\ last[t].arg = Some(BadDescriptor)
        /\ last[t].res = Err(<< "Parse", ".clone.meta" >>)
        /\ Has(last[t].log, "chdir")
        /\ last[t].cwd1 = last[t].cwd0

\* C12: every ClonedProject value has an absolute root: load_with_root with a
\* root that is not absolute returns an error (no caller is aborted by a
\* panic) and yields no value, and neither Default nor Clone yields a value
\* whose root is not absolute.
C12_RootAlwaysAbsolute ==
    /\ \A p \in projects : is_absolute(p.root)
    /\ \A t \in callers : pc[t] # "panicked"

\* C13: equality and order of two ClonedProject values depend on root only:
\* a == b iff a.root == b.root, cmp(a, b) is the comparison of the roots,
\* partial_cmp is Some(cmp), and the order is total and consistent with
\* equality, whatever the config, the metadata and the caches of the two.
C13_ComparedByRoot ==
    /\ \A t \in Done :
          last[t].op = "cmp" =>
              /\ last[t].res.val[1].eq
                     <=> (last[t].res.val[1].a.root = last[t].res.val[1].b.root)
              /\ last[t].res.val[1].cmp
                     = path_cmp(last[t].res.val[1].a.root, last[t].res.val[1].b.root)
              /\ last[t].res.val[1].partial_cmp = Some(last[t].res.val[1].cmp)
              /\ last[t].res.val[1].cmp = "Equal" <=> last[t].res.val[1].eq
    /\ \A a, b \in projects :
          /\ cmp(a, b) \in {"Less", "Equal", "Greater"}
          /\ cmp(a, b) = "Less" <=> cmp(b, a) = "Greater"
          /\ cmp(a, b) = "Equal" <=> eq(a, b)
          /\ \A c \in projects :
                (cmp(a, b) = "Less" /\ cmp(b, c) = "Less") => cmp(a, c) = "Less"

\* C13 witness: the instance has been compared with its clone, which has the
\* same root and another target contract, and found equal.
C13_Witness ==
    \E t \in Done :
        /\ last[t].op = "cmp"
        /\ last[t].res.val[1].a.root = last[t].res.val[1].b.root
        /\ last[t].res.val[1].a.metadata # last[t].res.val[1].b.metadata
        /\ last[t].res.val[1].eq
        /\ last[t].res.val[1].cmp = "Equal"

\* Artifact a is the first artifact of `output`, in its iteration order,
\* whose contract name is `name`.
FirstNamed(output, a, name) ==
    \E i \in 1..Len(output) :
        /\ output[i] = a
        /\ output[i].name = name
        /\ \A j \in 1..(i - 1) : output[j].name # name

\* C14: when the compile output holds several artifacts named
\* metadata.target_contract, main_artifact takes the first of them in the
\* iteration order of the output, caches that one and returns the cached one;
\* the artifact is determined by the compile output alone.
C14_FirstMatch ==
    [][ \A t \in callers :
           /\ (pc[t] = "ma_find" /\ pc'[t] = "ma_set_cache") =>
                 FirstNamed(reg[t].val[1], reg'[t].val[1], metadata.target_contract)
           /\ (pc[t] = "ma_set_cache" /\ pc'[t] = "ma_return") =>
                 _main_artifact' = reg[t].val
           /\ (op[t] = "main_artifact" /\ pc[t] \in {"ma_get_cached", "ma_return"}
                 /\ pc'[t] = "idle") =>
                 /\ last'[t].res.ok
                 /\ last'[t].res.val = _main_artifact
                 /\ \E output \in Outputs :
                       FirstNamed(output, last'[t].res.val[1],
                                  metadata.target_contract)
                 /\ last'[t].res.val[1] \in {OutDup[1], OutDup[2]}
                       => last'[t].res.val[1].file = "A.sol" ]_vars

\* C14 witness: main_artifact has returned, from the output with two
\* contracts named Target, the one of the first file, and it is cached.
C14_Witness ==
    \E t \in Done :
        /\ last[t].op = "main_artifact"
        /\ Has(last[t].log, "search")
        /\ last[t].res = Ok(OutDup[1])
        /\ _main_artifact = Some(OutDup[1])

\* How often event e is in log L.
Count(L, e) == Cardinality({i \in 1..Len(L) : L[i] = e})

\* No stage of a call with log L has run twice.
NoStageTwice(L) ==
    /\ Count(L, "storage") <= 1
    /\ Count(L, "storage_ok") + Count(L, "storage_err") <= 1
    /\ Count(L, "compiler") + Count(L, "compiler_failed") <= 1
    /\ Count(L, "search") <= 1
    /\ Count(L, "generate") <= 1
    /\ Count(L, "rpc") <= 1

\* C15: tweaked_code returns bytecode only if the chain check, the storage
\* check and the generation of that call all succeeded; an error of a stage
\* (an RPC failure in full mode included) is the call's result, with no
\* bytecode and no later stage, and no stage runs twice within one call.
C15_FailFastNoRetry ==
    /\ \A t \in callers : op[t] = "tweaked_code" => NoStageTwice(log[t])
    /\ \A t \in Done :
          last[t].op = "tweaked_code" =>
              /\ NoStageTwice(last[t].log)
              /\ last[t].res.ok =>
                    /\ ~ChainMismatch
                    /\ Has(last[t].log, "storage_ok")
                    /\ Has(last[t].log, "generate")
                    /\ last[t].res.val[1][1] \in {"runtime", "replayed"}
                    /\ last[t].res.val[1][1] = "replayed" <=> ~last[t].quick
              /\ ~last[t].res.ok =>
                    /\ last[t].res.val = None
                    /\ last[t].res.err # None
              /\ ChainMismatch => Kind(last[t].res) = "ChainMismatch"
              /\ Has(last[t].log, "compiler_failed") =>
                    /\ last[t].res = Err(<< "Compile", "diagnostics" >>)
                    /\ ~Has(last[t].log, "search")
              /\ Has(last[t].log, "storage_err") =>
                    /\ ~last[t].res.ok
                    /\ last[t].log[Len(last[t].log)] = "storage_err"
              /\ Kind(last[t].res) \in {"Rpc", "Replay"} =>
                    /\ ~last[t].quick
                    /\ last[t].log[Len(last[t].log)] = "rpc"
              /\ last[t].quick => ~Has(last[t].log, "rpc")

\* C15 witness: a full tweaked_code whose RPC query failed has returned that
\* error after the chain check, the storage check and one compilation.
C15_Witness ==
    \E t \in Done :
        /\ last[t].op = "tweaked_code"
        /\ ~last[t].quick
        /\ last[t].res = Err(<< "Rpc", "unreachable" >>)
        /\ last[t].log = << "storage", "compiler", "search", "storage_ok",
                            "generate", "rpc" >>

\* The variables of the current layout that carry the label of recorded
\* variable r: where the variable r describes is now.
Now(r, current) == {i \in 1..Len(current) : current[i].label = r.label}

\* Recorded variable r is missing, relocated or changed in the current
\* layout: the layout has no variable of its label, or that variable is at
\* another slot or offset, or it has another size or another encoding.
Broken(r, current) ==
    \/ Now(r, current) = {}
    \/ \E i \in Now(r, current) :
          \/ current[i].slot # r.slot
          \/ current[i].offset # r.offset
          \/ current[i].size # r.size
          \/ current[i].encoding # r.encoding

\* What C16 requires of the result res of a check of `recorded` against
\* `current`.
Exhaustive(recorded, current, res) ==
    /\ res.ok <=> \A i \in 1..Len(recorded) : ~Broken(recorded[i], current)
    /\ ~res.ok =>
          /\ res.err[1] = "IncompatibleStorage"
          /\ {e.expected : e \in res.err[2]}
                 = {recorded[i] : i \in {j \in 1..Len(recorded) :
                                            Broken(recorded[j], current)}}
          /\ \A e \in res.err[2] :
                /\ e.label = e.expected.label
                /\ e.actual = None
                       <=> \A i \in 1..Len(current) : current[i].label # e.label
                /\ e.actual # None
                       => /\ e.actual[1].label = e.label
                          /\ \E i \in 1..Len(current) : current[i] = e.actual[1]
    /\ \A j \in 1..Len(recorded) :
          (\E i \in 1..Len(current) :
              /\ current[i].slot = recorded[j].slot
              /\ current[i].offset = recorded[j].offset
              /\ current[i].label # recorded[j].label)
          => /\ ~res.ok
             /\ \E e \in res.err[2] : e.expected = recorded[j]
    /\ (Len(current) >= Len(recorded)
           /\ SubSeq(current, 1, Len(recorded)) = recorded) => res.ok

\* C16: the storage check is exhaustive: its error lists every recorded
\* variable that is missing, relocated (also when another variable has taken
\* its slot and offset) or changed in size or encoding in the current layout,
\* each with its expected and its actual position, and it succeeds exactly
\* when no recorded variable is violated, so a layout that only appends
\* variables is accepted.
C16_CheckExhaustive ==
    [][ \A t \in callers :
           (pc[t] = "sc_compare" /\ pc'[t] = "idle" /\ reg[t].ok) =>
               Exhaustive(metadata.storage_layout, reg[t].val[1].layout,
                          last'[t].res) ]_vars

\* C16 witness: a check has failed and its error lists two variables, one of
\* them relocated to the slot and offset the other was recorded at, with the
\* recorded size and encoding.
C16_Witness ==
    \E t \in Done :
        /\ last[t].op = "check_storage_compatibility"
        /\ Kind(last[t].res) = "IncompatibleStorage"
        /\ Cardinality(last[t].res.err[2]) = 2
        /\ \E e, f \in last[t].res.err[2] :
              /\ e.label # f.label
              /\ e.actual # None
              /\ e.actual[1].slot = f.expected.slot
              /\ e.actual[1].offset = f.expected.offset
              /\ e.actual[1].size = e.expected.size
              /\ e.actual[1].encoding = e.expected.encoding
              /\ e.actual[1].slot # e.expected.slot

\* C17: whenever the compiler is invoked for the instance, the working
\* directory of the process is the root of the instance, also when calls on
\* it run concurrently.
C17_CompilerRunsInRoot ==
    [][ \A t \in callers :
           (pc[t] = "cs_compile" /\ pc'[t] # "cs_compile") => cwd = self(t).root ]_vars

\* C18: the caches belong to one ClonedProject value: main_artifact called on
\* a value (a clone of the instance whose metadata.target_contract was
\* changed included) returns an artifact of that value's target contract,
\* never an artifact cached through another value.
C18_CachesPerInstance ==
    [][ \A t \in callers :
           (op[t] = "main_artifact" /\ pc[t] # "idle" /\ pc'[t] = "idle"
              /\ last'[t].res.ok)
               => last'[t].res.val[1].name = self(t).metadata.target_contract ]_vars

\* C19: a populated cache never becomes empty again, so in every interleaving
\* of compile_safe and main_artifact callers every get_cache finds a value:
\* no caller panics and no cache mutex is poisoned.
C19_GetCacheNeverPanics ==
    [][ /\ _compile_output # None => _compile_output' # None
        /\ _main_artifact # None => _main_artifact' # None
        /\ poisoned' = {}
        /\ \A t \in callers :
              /\ pc'[t] # "panicked"
              /\ pc'[t] \in {"cs_get_cached", "cs_return"} => _compile_output' # None
              /\ pc'[t] \in {"ma_get_cached", "ma_return"} => _main_artifact' # None
      ]_vars

\* C19 witness: two callers, both of which ran the compiler, have returned
\* from get_cache, one in compile_safe and one in main_artifact.
C19_Witness ==
    /\ compiles.ok = 2
    /\ \E t, u \in Done :
          /\ last[t].op = "compile_safe" /\ last[t].res.ok
          /\ Has(last[t].log, "compiler")
          /\ last[u].op = "main_artifact" /\ last[u].res.ok
          /\ Has(last[u].log, "compiler")

\* C20: whenever the target-artifact cache is populated, the compile-output
\* cache is populated too, the cached artifact has the name
\* metadata.target_contract, and it is the first artifact of that name in the
\* compile output the compile-output cache holds, also when several callers
\* compiled concurrently.
C20_ArtifactOfCachedOutput ==
    _main_artifact # None =>
        /\ _compile_output # None
        /\ _main_artifact[1].name = metadata.target_contract
        /\ \E i \in 1..Len(_compile_output[1]) :
              /\ _compile_output[1][i] = _main_artifact[1]
              /\ \A j \in 1..(i - 1) :
                    _compile_output[1][j].name # metadata.target_contract

====
